---- MODULE Spec2Model ----
(***************************************************************************)
(* Price resolution and aggregation pipeline of GroceryPriceFinder:        *)
(* CacheService (price cache), MockPriceProvider, PriceProviderManager     *)
(* and AggregationService.                                                 *)
(*                                                                         *)
(* Strings on which the code computes (store names, item names, provider   *)
(* registration names) are sequences of one-character strings, so that     *)
(* toLowerCase, trim, includes and the hash are computed, not assumed.     *)
(* Money is kept in integer cents.  null is NullPrice for a price or a     *)
(* total; undefined is Undefined for an item name and NoReason for         *)
(* mockDataReason.                                                         *)
(***************************************************************************)
EXTENDS Integers, Sequences, FiniteSets, TLC

(* ------------------------------ bounds -------------------------------- *)

MaxStores == 2       \* stores of one compareStores call, under Spec
MaxItems == 2        \* items of one compareStores call
MaxCalls == 2        \* compareStores calls, under Spec
MaxBatchStores == 3  \* stores of the compareStores call, under SpecBatch
MaxFinds == 2        \* findNearbyStores calls, under SpecDiscovery
MaxElements == 2     \* places in one answer of the places API
MaxClientCalls == 3  \* overpassClient.findStores calls, under SpecRateLimit
MaxTime == 3500      \* last value of Date.now(), in ms, under SpecRateLimit
MaxRequests == 2     \* POST /compare requests, under SpecHandler

(* ------------------------- JavaScript strings ------------------------- *)

UpperChars == <<"A", "B", "C", "D", "E", "F", "G", "H", "I", "J", "K", "L", "M",
                "N", "O", "P", "Q", "R", "S", "T", "U", "V", "W", "X", "Y", "Z">>

LowerChars == <<"a", "b", "c", "d", "e", "f", "g", "h", "i", "j", "k", "l", "m",
                "n", "o", "p", "q", "r", "s", "t", "u", "v", "w", "x", "y", "z">>

toLowerCaseChar(c) ==
    IF \E i \in 1..26 : UpperChars[i] = c
    THEN LowerChars[CHOOSE i \in 1..26 : UpperChars[i] = c]
    ELSE c

toLowerCase(s) == [i \in 1..Len(s) |-> toLowerCaseChar(s[i])]

RECURSIVE trimStart(_)
trimStart(s) ==
    IF s # <<>> /\ Head(s) = " " THEN trimStart(Tail(s)) ELSE s

RECURSIVE trimEnd(_)
trimEnd(s) ==
    IF s # <<>> /\ s[Len(s)] = " " THEN trimEnd(SubSeq(s, 1, Len(s) - 1)) ELSE s

trim(s) == trimEnd(trimStart(s))

includes(s, sub) ==
    \E i \in 1..(Len(s) - Len(sub) + 1) : SubSeq(s, i, i + Len(sub) - 1) = sub

\* String.prototype.charCodeAt for the characters the model uses.
charCodeAt(c) ==
    IF c = " " THEN 32
    ELSE IF \E i \in 1..26 : UpperChars[i] = c
         THEN 64 + (CHOOSE i \in 1..26 : UpperChars[i] = c)
         ELSE 96 + (CHOOSE i \in 1..26 : LowerChars[i] = c)

(* ------------------------------ values -------------------------------- *)

NullPrice == -1
Undefined == <<"undefined">>
NoReason == <<>>

(* -------------------------- MockPriceProvider ------------------------- *)

MockProviderName == "MockProvider"

priceRanges ==
    {
       [key |-> <<"m", "i", "l", "k">>, min |-> 350, max |-> 500],
       [key |-> <<"e", "g", "g", "s">>, min |-> 300, max |-> 600],
       [key |-> <<"b", "r", "e", "a", "d">>, min |-> 250, max |-> 450],
       [key |-> <<"b", "u", "t", "t", "e", "r">>, min |-> 400, max |-> 650],
       [key |-> <<"c", "h", "e", "e", "s", "e">>, min |-> 450, max |-> 800],
       [key |-> <<"c", "h", "i", "c", "k", "e", "n">>, min |-> 600, max |-> 1200],
       [key |-> <<"b", "e", "e", "f">>, min |-> 800, max |-> 1500],
       [key |-> <<"r", "i", "c", "e">>, min |-> 200, max |-> 500],
       [key |-> <<"p", "a", "s", "t", "a">>, min |-> 150, max |-> 350],
       [key |-> <<"a", "p", "p", "l", "e", "s">>, min |-> 200, max |-> 500],
       [key |-> <<"b", "a", "n", "a", "n", "a", "s">>, min |-> 150, max |-> 300],
       [key |-> <<"t", "o", "m", "a", "t", "o", "e", "s">>, min |-> 250, max |-> 450],
       [key |-> <<"l", "e", "t", "t", "u", "c", "e">>, min |-> 200, max |-> 400],
       [key |-> <<"c", "a", "r", "r", "o", "t", "s">>, min |-> 150, max |-> 350],
       [key |-> <<"o", "n", "i", "o", "n", "s">>, min |-> 100, max |-> 250],
       [key |-> <<"p", "o", "t", "a", "t", "o", "e", "s">>, min |-> 300, max |-> 600],
       [key |-> <<"c", "e", "r", "e", "a", "l">>, min |-> 350, max |-> 650],
       [key |-> <<"c", "o", "f", "f", "e", "e">>, min |-> 600, max |-> 1200],
       [key |-> <<"s", "u", "g", "a", "r">>, min |-> 250, max |-> 450],
       [key |-> <<"f", "l", "o", "u", "r">>, min |-> 300, max |-> 550]
    }

DefaultRangeMin == 200
DefaultRangeMax == 1000

\* The 32-bit hash is kept as an unsigned pair <<hi, lo>> of 16-bit halves:
\* hash = ((hash << 5) - hash) + char; hash = hash & hash, i.e. hash * 31 + char
\* reduced to 32 bits.
Half == 65536

hashStep(h, code) ==
    LET low == h[2] * 31 + code
        high == h[1] * 31 + (low \div Half)
    IN  <<high % Half, low % Half>>

RECURSIVE hashLoop(_, _)
hashLoop(h, str) ==
    IF str = <<>> THEN h
    ELSE hashLoop(hashStep(h, charCodeAt(Head(str))), Tail(str))

\* Math.abs(hash) % 100 of the signed 32-bit value held in h.
absMod100(h) ==
    IF h[1] < 32768
    THEN ((h[1] % 100) * (Half % 100) + (h[2] % 100)) % 100
    ELSE (((Half - h[1]) % 100) * (Half % 100) + 100 - (h[2] % 100)) % 100

simpleHashMod100(str) == absMod100(hashLoop(<<0, 0>>, str))

rangeOf(normalized) ==
    IF \E r \in priceRanges : r.key = normalized
    THEN CHOOSE r \in priceRanges : r.key = normalized
    ELSE [key |-> normalized, min |-> DefaultRangeMin, max |-> DefaultRangeMax]

\* generatePrice in cents: basePrice = min + (hash % 100) / 100 * (max - min),
\* times quantity, Math.round to two decimals (half up).
generatePrice(itemName, quantity) ==
    LET normalized == trim(toLowerCase(itemName))
        range == rangeOf(normalized)
        hundredths == (100 * range.min
                       + simpleHashMod100(normalized) * (range.max - range.min))
                      * quantity
    IN  (hundredths + 50) \div 100

\* item.name.toLowerCase() on an item without a name is a TypeError.
mockThrows(items) == \E i \in 1..Len(items) : items[i].name = Undefined

TypeErrorMessage == "Cannot read properties of undefined (reading 'toLowerCase')"

mockGetPrices(items) ==
    [i \in 1..Len(items) |->
        [itemName |-> items[i].name,
         price |-> generatePrice(items[i].name, items[i].quantity),
         currency |-> "USD",
         isMockData |-> TRUE,
         src |-> "mock"]]

(* ------------------------- inputs of the model ------------------------ *)

\* Stores as store discovery returns them (Store: id, name, address).
StoreCatalogue ==
    { [id |-> "walmart-1", name |-> <<"W", "a", "l", "m", "a", "r", "t">>,
       address |-> "123 Main St"],
      [id |-> "walmart-2", name |-> <<" ", "W", "A", "L", "M", "A", "R", "T">>,
       address |-> "789 Elm St"],
      [id |-> "geoapify-9", name |-> <<"K", "r", "o", "g", "e", "r">>,
       address |-> "9 Elm St"] }

\* Items as POST /compare hands them over: index.ts passes req.body.items
\* through unchanged, so an item may carry no name (CompareRequest items are
\* {productId, quantity}).
ItemCatalogue ==
    { [productId |-> 1, name |-> <<"E", "g", "g", "s">>,
       normalizedName |-> <<"e", "g", "g", "s">>, category |-> "Dairy",
       quantity |-> 1],
      [productId |-> 2, name |-> <<"b", "r", "e", "a", "d">>,
       normalizedName |-> <<"b", "r", "e", "a", "d">>, category |-> "Bakery",
       quantity |-> 2],
      [productId |-> 3, name |-> Undefined,
       normalizedName |-> Undefined, category |-> "",
       quantity |-> 1] }

\* Stores and GroceryItems for the process as it is constructed, with no
\* provider but the mock: two products share the normalizedName "whole milk"
\* under different display names.
MockStoreCatalogue ==
    { [id |-> "walmart-7",
       name |-> <<"W", "a", "l", "m", "a", "r", "t", " ",
                  "S", "u", "p", "e", "r", "c", "e", "n", "t", "e", "r">>,
       address |-> "500 Oak Ave"],
      [id |-> "geoapify-9", name |-> <<"K", "r", "o", "g", "e", "r">>,
       address |-> "9 Elm St"] }

WholeMilk == <<"w", "h", "o", "l", "e", " ", "m", "i", "l", "k">>

MockItemCatalogue ==
    { [productId |-> 1,
       name |-> <<"W", "h", "o", "l", "e", " ", "M", "i", "l", "k">>,
       normalizedName |-> WholeMilk, category |-> "Dairy", quantity |-> 1],
      [productId |-> 1,
       name |-> <<"W", "h", "o", "l", "e", " ", "M", "i", "l", "k">>,
       normalizedName |-> WholeMilk, category |-> "Dairy", quantity |-> 2],
      [productId |-> 4,
       name |-> <<"O", "r", "g", "a", "n", "i", "c", " ",
                  "W", "h", "o", "l", "e", " ", "M", "i", "l", "k">>,
       normalizedName |-> WholeMilk, category |-> "Organic", quantity |-> 1],
      [productId |-> 5, name |-> <<" ", "E", "G", "G", "S">>,
       normalizedName |-> <<"e", "g", "g", "s">>, category |-> "Dairy",
       quantity |-> 1] }

\* Prices a non-mock provider may report, in cents.
ProviderPrices == {150, 600}

\* Names under which registerProvider is called, and the provider registered.
RegNames ==
    { <<"W", "a", "l", "m", "a", "r", "t">> }

ScraperFor(regName) ==
    IF toLowerCase(regName) = <<"w", "a", "l", "m", "a", "r", "t">> THEN "WalmartScraper"
    ELSE IF toLowerCase(regName) = <<"t", "a", "r", "g", "e", "t">> THEN "TargetScraper"
    ELSE "KrogerScraper"

\* Values a provider may throw: an Error, or something that is not an Error.
ThrownValues ==
    { [isError |-> TRUE, message |-> "timeout"],
      [isError |-> FALSE, message |-> ""] }

RECURSIVE DistinctSeqs(_, _)
DistinctSeqs(S, n) ==
    IF n = 0 THEN {<<>>}
    ELSE {<<>>} \cup
         UNION { { <<x>> \o t : t \in DistinctSeqs(S \ {x}, n - 1) } : x \in S }

StoreLists == DistinctSeqs(StoreCatalogue, MaxStores) \ {<<>>}

BatchStoreLists == DistinctSeqs(StoreCatalogue, MaxBatchStores) \ {<<>>}

\* index.ts answers 400 for an empty items array before compareStores runs.
ItemLists == DistinctSeqs(ItemCatalogue, MaxItems) \ {<<>>}

\* Store names and registration names for provider selection: both brands,
\* one brand, no brand, in mixed case.
SelectStoreCatalogue ==
    { [id |-> "walmart-3", name |-> <<"W", "A", "L", "M", "A", "R", "T">>,
       address |-> "1 First St"],
      [id |-> "target-1",
       name |-> <<"S", "u", "p", "e", "r", " ", "T", "a", "r", "g", "e", "t">>,
       address |-> "2 Second St"],
      [id |-> "target-2",
       name |-> <<"T", "a", "r", "g", "e", "t", " ", "a", "t", " ",
                  "W", "a", "l", "m", "a", "r", "t">>,
       address |-> "3 Third St"],
      [id |-> "geoapify-9", name |-> <<"K", "r", "o", "g", "e", "r">>,
       address |-> "9 Elm St"] }

SelectRegNames ==
    { <<"W", "a", "l", "m", "a", "r", "t">>,
      <<"T", "A", "R", "G", "E", "T">>,
      <<"K", "r", "o", "g", "e", "r">> }

SelectStoreLists == {<<s>> : s \in SelectStoreCatalogue}

SelectItemLists == {<<it>> : it \in ItemCatalogue}

\* Requests for one product in different quantities: the first request of a
\* process asks for FirstQuantity, later ones for another quantity.
FirstQuantity == 1

Quantities == {FirstQuantity, 3}

QuantityItemCatalogue ==
    { [productId |-> 1, name |-> <<"E", "g", "g", "s">>,
       normalizedName |-> <<"e", "g", "g", "s">>, category |-> "Dairy",
       quantity |-> q] : q \in Quantities }

QuantityItemLists == {<<it>> : it \in QuantityItemCatalogue}

QuantityStoreLists == {<<s>> : s \in StoreCatalogue}

MockStoreLists == DistinctSeqs(MockStoreCatalogue, MaxStores) \ {<<>>}

MockItemLists == DistinctSeqs(MockItemCatalogue, MaxItems) \ {<<>>}

(* ------------------------------- state -------------------------------- *)

VARIABLES
    forceMockData,  \* PriceProviderManager.forceMockData
    providers,      \* PriceProviderManager.providers: key -> provider name
    priceCache,     \* CacheService.priceCache: key -> price
    phase,          \* idle, or the compareStores promise: running, resolved, rejected
    stores,         \* argument of the running / last compareStores call
    items,          \* argument of the running / last compareStores call
    pipes,          \* one getStoreWithPrices promise per input store
    result,         \* the array compareStores resolved with
    nCalls,         \* number of compareStores calls started
    storeCache,     \* CacheService.storeCache: key -> Store[]
    disc,           \* StoreDiscoveryService and its findNearbyStores call
    overpass,       \* OverpassClient, its findStores calls and the clock
    request         \* the POST /compare request being handled

vars == <<forceMockData, providers, priceCache, phase, stores, items, pipes,
          result, nCalls, storeCache, disc, overpass, request>>

pipelineVars == <<forceMockData, providers, priceCache, phase, stores, items,
                  pipes, result, nCalls>>

discoveryVars == <<storeCache, disc, overpass, request>>

clientVars == <<overpass, request>>

serviceVars == <<storeCache, disc, overpass>>

(* ---------------------------- CacheService ---------------------------- *)

\* Mutant: the store name is lower-cased but not trimmed.
getPriceKey_NoTrim(storeName, productId) == <<toLowerCase(storeName), productId>>

getPriceKey(storeName, productId) == <<trim(toLowerCase(storeName)), productId>>

\* getPrice: the cached number, or null when the key is absent.
getPrice(cache, storeName, productId) ==
    LET key == getPriceKey(storeName, productId)
    IN  IF key \in DOMAIN cache THEN cache[key] ELSE NullPrice

\* Mutant: setPrice without its null check.
setPrice_CachesNull(cache, storeName, productId, price) ==
    LET key == getPriceKey(storeName, productId)
    IN  [k \in (DOMAIN cache) \cup {key} |-> IF k = key THEN price ELSE cache[k]]

\* Mutant: an entry that exists is kept, the first write wins.
setPrice_KeepsExisting(cache, storeName, productId, price) ==
    LET key == getPriceKey(storeName, productId)
    IN  IF price = NullPrice \/ key \in DOMAIN cache THEN cache
        ELSE [k \in (DOMAIN cache) \cup {key} |-> IF k = key THEN price ELSE cache[k]]

\* setPrice: "Don't cache null prices".
setPrice(cache, storeName, productId, price) ==
    IF price = NullPrice THEN cache
    ELSE LET key == getPriceKey(storeName, productId)
         IN  [k \in (DOMAIN cache) \cup {key} |-> IF k = key THEN price ELSE cache[k]]

(* ------------------------ PriceProviderManager ------------------------ *)

MockKey == <<"m", "o", "c", "k">>

registerProvider(provs, name, provider) ==
    LET key == toLowerCase(name)
    IN  [k \in (DOMAIN provs) \cup {key} |-> IF k = key THEN provider ELSE provs[k]]

providersGet(provs, key) ==
    IF key \in DOMAIN provs THEN provs[key] ELSE MockProviderName

\* Mutant: the provider registered under the lower-cased store name.
selectProvider_ByStoreName(provs, storeName) ==
    providersGet(provs, toLowerCase(storeName))

\* Mutant: the store name is matched as it is spelled.
selectProvider_CaseSensitive(provs, storeName) ==
    LET normalizedName == storeName
    IN  IF includes(normalizedName, <<"w", "a", "l", "m", "a", "r", "t">>)
        THEN providersGet(provs, <<"w", "a", "l", "m", "a", "r", "t">>)
        ELSE IF includes(normalizedName, <<"t", "a", "r", "g", "e", "t">>)
             THEN providersGet(provs, <<"t", "a", "r", "g", "e", "t">>)
             ELSE MockProviderName

selectProvider(provs, storeName) ==
    LET normalizedName == toLowerCase(storeName)
    IN  IF includes(normalizedName, <<"w", "a", "l", "m", "a", "r", "t">>)
        THEN providersGet(provs, <<"w", "a", "l", "m", "a", "r", "t">>)
        ELSE IF includes(normalizedName, <<"t", "a", "r", "g", "e", "t">>)
             THEN providersGet(provs, <<"t", "a", "r", "g", "e", "t">>)
             ELSE MockProviderName

\* Mutant: the cached entries come back in reverse order.
RECURSIVE getPricesFromCache_Reversed(_, _, _)
getPricesFromCache_Reversed(cache, storeName, its) ==
    IF its = <<>> THEN <<>>
    ELSE LET item == Head(its)
             cachedPrice == getPrice(cache, storeName, item.productId)
             rest == getPricesFromCache_Reversed(cache, storeName, Tail(its))
         IN  IF cachedPrice # NullPrice
             THEN rest \o
                  <<[itemName |-> item.name, price |-> cachedPrice,
                     currency |-> "USD", isMockData |-> FALSE, src |-> "cache"]>>
             ELSE rest

\* Mutant: the cached price is multiplied by the quantity asked for.
RECURSIVE getPricesFromCache_TimesQuantity(_, _, _)
getPricesFromCache_TimesQuantity(cache, storeName, its) ==
    IF its = <<>> THEN <<>>
    ELSE LET item == Head(its)
             cachedPrice == getPrice(cache, storeName, item.productId)
             rest == getPricesFromCache_TimesQuantity(cache, storeName, Tail(its))
         IN  IF cachedPrice # NullPrice
             THEN <<[itemName |-> item.name, price |-> cachedPrice * item.quantity,
                     currency |-> "USD", isMockData |-> FALSE, src |-> "cache"]>>
                  \o rest
             ELSE rest

\* Mutant: the loop stops one item early.
RECURSIVE getPricesFromCache_DropsLast(_, _, _)
getPricesFromCache_DropsLast(cache, storeName, its) ==
    IF Len(its) <= 1 THEN <<>>
    ELSE LET item == Head(its)
             cachedPrice == getPrice(cache, storeName, item.productId)
             rest == getPricesFromCache_DropsLast(cache, storeName, Tail(its))
         IN  IF cachedPrice # NullPrice
             THEN <<[itemName |-> item.name, price |-> cachedPrice,
                     currency |-> "USD", isMockData |-> FALSE, src |-> "cache"]>>
                  \o rest
             ELSE rest

RECURSIVE getPricesFromCache(_, _, _)
getPricesFromCache(cache, storeName, its) ==
    IF its = <<>> THEN <<>>
    ELSE LET item == Head(its)
             cachedPrice == getPrice(cache, storeName, item.productId)
             rest == getPricesFromCache(cache, storeName, Tail(its))
         IN  IF cachedPrice # NullPrice
             THEN <<[itemName |-> item.name, price |-> cachedPrice,
                     currency |-> "USD", isMockData |-> FALSE, src |-> "cache"]>>
                  \o rest
             ELSE rest

\* Mutant: the loop does not look at isMockData.
RECURSIVE cachePricesFrom_CachesMock(_, _, _, _, _)
cachePricesFrom_CachesMock(cache, storeName, its, prices, i) ==
    IF ~(i <= Len(prices) /\ i <= Len(its)) THEN cache
    ELSE LET priceData == prices[i]
             item == its[i]
         IN  cachePricesFrom_CachesMock(
                 IF priceData.price # NullPrice
                 THEN setPrice(cache, storeName, item.productId, priceData.price)
                 ELSE cache,
                 storeName, its, prices, i + 1)

RECURSIVE cachePricesFrom(_, _, _, _, _)
cachePricesFrom(cache, storeName, its, prices, i) ==
    IF ~(i <= Len(prices) /\ i <= Len(its)) THEN cache
    ELSE LET priceData == prices[i]
             item == its[i]
         IN  cachePricesFrom(
                 IF priceData.price # NullPrice /\ ~priceData.isMockData
                 THEN setPrice(cache, storeName, item.productId, priceData.price)
                 ELSE cache,
                 storeName, its, prices, i + 1)

\* Mutant: nothing is written back to the cache.
cachePrices_Noop(cache, storeName, its, prices) == cache

cachePrices(cache, storeName, its, prices) ==
    cachePricesFrom(cache, storeName, its, prices, 1)

\* true when cachePrices calls cacheService.setPrice at least once
cachePricesWrites(its, prices) ==
    \E i \in 1..Len(prices) :
        i <= Len(its) /\ prices[i].price # NullPrice /\ ~prices[i].isMockData

errorMessage(e) == IF e.isError THEN e.message ELSE "Unknown error"

DemoReason == <<"Demo mode enabled (FORCE_MOCK_DATA=true)">>
NotImplementedReason == <<"Scraper not yet implemented">>
ScraperFailedReason(e) == <<"Scraper failed: ", errorMessage(e)>>
NotAvailableError(provider) ==
    [isError |-> TRUE, message |-> "Provider " \o provider \o " is not available"]
TypeErrorValue == [isError |-> TRUE, message |-> TypeErrorMessage]

\* Settled or pending outcome of one getPricesForStore call.
gpPending == [state |-> "pending", prices |-> <<>>, usedMockData |-> FALSE,
              mockDataReason |-> NoReason, error |-> [isError |-> FALSE, message |-> ""]]
gpResolved(prices, usedMock, reason) ==
    [state |-> "resolved", prices |-> prices, usedMockData |-> usedMock,
     mockDataReason |-> reason, error |-> [isError |-> FALSE, message |-> ""]]
gpRejected(e) ==
    [state |-> "rejected", prices |-> <<>>, usedMockData |-> FALSE,
     mockDataReason |-> NoReason, error |-> e]

\* The three return statements of getPricesForStore that follow a provider.
\* Mutant: demo mode returns mock prices without a reason.
forcedResult_NoReason(prices) == gpResolved(prices, TRUE, NoReason)

forcedResult(prices) == gpResolved(prices, TRUE, DemoReason)

\* Mutant: the provider's name is never recognised as the mock's.
providerResult_NeverMock(provider, prices) == gpResolved(prices, FALSE, NoReason)

providerResult(provider, prices) ==
    LET isMock == provider = MockProviderName
    IN  gpResolved(prices, isMock, IF isMock THEN NotImplementedReason ELSE NoReason)

fallbackResult(prices, reason) == gpResolved(prices, TRUE, reason)

cacheResult(cachedPrices) == gpResolved(cachedPrices, FALSE, NoReason)

(* ------------------------- AggregationService ------------------------- *)

\* Mutant: a missing price is skipped instead of voiding the total.
RECURSIVE calculateTotal_SkipsMissing(_)
calculateTotal_SkipsMissing(prices) ==
    IF prices = <<>> THEN 0
    ELSE (IF Head(prices).price = NullPrice THEN 0 ELSE Head(prices).price)
         + calculateTotal_SkipsMissing(Tail(prices))

RECURSIVE calculateTotal(_)
calculateTotal(prices) ==
    IF prices = <<>> THEN 0
    ELSE IF Head(prices).price = NullPrice THEN NullPrice
         ELSE LET rest == calculateTotal(Tail(prices))
              IN  IF rest = NullPrice THEN NullPrice ELSE Head(prices).price + rest

NoRow == [id |-> "", name |-> <<>>, address |-> "", items |-> <<>>,
          total |-> NullPrice, usedMockData |-> FALSE, mockDataReason |-> NoReason]

\* Mutant: the catch block returns the row without item entries.
errorRow_NoItems(store, its, e) ==
    [id |-> store.id, name |-> store.name, address |-> store.address,
     items |-> <<>>,
     total |-> NullPrice,
     usedMockData |-> TRUE,
     mockDataReason |-> <<"Error: ", errorMessage(e)>>]

\* The catch block of getStoreWithPrices.
errorRow(store, its, e) ==
    [id |-> store.id, name |-> store.name, address |-> store.address,
     items |-> [i \in 1..Len(its) |->
                   [itemName |-> its[i].name, price |-> NullPrice,
                    currency |-> "USD", isMockData |-> FALSE, src |-> "none"]],
     total |-> NullPrice,
     usedMockData |-> TRUE,
     mockDataReason |-> <<"Error: ", errorMessage(e)>>]

\* Mutant: no try/catch around the per-store pipeline.
getStoreWithPrices_NoCatch(store, its, gp) ==
    IF gp.state = "resolved"
    THEN [state |-> "fulfilled",
          row |-> [id |-> store.id, name |-> store.name, address |-> store.address,
                   items |-> gp.prices,
                   total |-> calculateTotal(gp.prices),
                   usedMockData |-> gp.usedMockData,
                   mockDataReason |-> gp.mockDataReason]]
    ELSE [state |-> "rejected", row |-> NoRow]

\* getStoreWithPrices once its getPricesForStore call has settled with gp:
\* the state of the promise it returns and the row it resolves with.
getStoreWithPrices(store, its, gp) ==
    IF gp.state = "resolved"
    THEN [state |-> "fulfilled",
          row |-> [id |-> store.id, name |-> store.name, address |-> store.address,
                   items |-> gp.prices,
                   total |-> calculateTotal(gp.prices),
                   usedMockData |-> gp.usedMockData,
                   mockDataReason |-> gp.mockDataReason]]
    ELSE [state |-> "fulfilled", row |-> errorRow(store, its, gp.error)]

\* Mutant: the comparator without its two null checks.
compareFn_NoNullCheck(a, b) == a.total - b.total

\* Mutant: the comparator with its subtraction turned round.
compareFn_Descending(a, b) ==
    IF a.total = NullPrice THEN 1
    ELSE IF b.total = NullPrice THEN -1
         ELSE b.total - a.total

\* The comparator handed to Array.prototype.sort.
compareFn(a, b) ==
    IF a.total = NullPrice THEN 1
    ELSE IF b.total = NullPrice THEN -1
         ELSE a.total - b.total

\* Array.prototype.sort as V8 runs it on a short array: the leading run is
\* found (and reversed when strictly descending), then every later element
\* is placed by binary insertion.
RECURSIVE runEnd(_, _, _)
runEnd(a, idx, descending) ==
    IF idx > Len(a) THEN Len(a)
    ELSE LET order == compareFn(a[idx], a[idx - 1])
         IN  IF (descending /\ order >= 0) \/ (~descending /\ order < 0)
             THEN idx - 1
             ELSE runEnd(a, idx + 1, descending)

reverseRange(a, n) == [i \in 1..Len(a) |-> IF i <= n THEN a[n + 1 - i] ELSE a[i]]

RECURSIVE binarySearch(_, _, _, _)
binarySearch(a, pivot, left, right) ==
    IF left >= right THEN left
    ELSE LET mid == left + ((right - left) \div 2)
         IN  IF compareFn(pivot, a[mid]) < 0
             THEN binarySearch(a, pivot, left, mid)
             ELSE binarySearch(a, pivot, mid + 1, right)

insertAt(a, from, to) ==
    [i \in 1..Len(a) |->
        IF i < to \/ i > from THEN a[i]
        ELSE IF i = to THEN a[from] ELSE a[i - 1]]

RECURSIVE binaryInsertionSort(_, _)
binaryInsertionSort(a, start) ==
    IF start > Len(a) THEN a
    ELSE binaryInsertionSort(
             insertAt(a, start, binarySearch(a, a[start], 1, start)), start + 1)

\* Mutant: the rows are returned unsorted.
arraySort_Unsorted(a) == a

arraySort(a) ==
    IF Len(a) < 2 THEN a
    ELSE LET descending == compareFn(a[2], a[1]) < 0
             run == runEnd(a, 3, descending)
             b == IF descending THEN reverseRange(a, run) ELSE a
         IN  binaryInsertionSort(b, run + 1)

\* Mutant: every row counts as complete.
getStats_CountsEveryRow(storesWithPrices) ==
    [totalStores |-> Len(storesWithPrices),
     storesWithCompletePrices |-> Len(storesWithPrices),
     storesUsingMockData |->
         Len(SelectSeq(storesWithPrices, LAMBDA st : st.usedMockData))]

getStats(storesWithPrices) ==
    [totalStores |-> Len(storesWithPrices),
     storesWithCompletePrices |->
         Len(SelectSeq(storesWithPrices, LAMBDA st : st.total # NullPrice)),
     storesUsingMockData |->
         Len(SelectSeq(storesWithPrices, LAMBDA st : st.usedMockData))]

(* ---------------------- one pipeline per input store ------------------ *)

NoProvider == "none"

pipeSettle(pipe, store, its, gp) ==
    LET s == getStoreWithPrices(store, its, gp)
    IN  [pipe EXCEPT !.pc = s.state, !.gp = gp, !.row = s.row]

\* catch of getPricesForStore: the fallback call of mockProvider.getPrices
pipeFallback(pipe, e) ==
    [pipe EXCEPT !.pc = "mockDelay", !.via = "fallback",
                 !.reason = ScraperFailedReason(e),
                 !.log = @ \cup {"mock.getPrices"}]

\* Mutant: any cached price makes the call return the cached part.
startPipe_AnyHitServes(force, provs, cache, store, its) ==
    LET base == [pc |-> "mockDelay", via |-> "forced", provider |-> NoProvider,
                 reason |-> NoReason, gp |-> gpPending, row |-> NoRow,
                 log |-> {}]
        cachedPrices == getPricesFromCache(cache, store.name, its)
        provider == selectProvider(provs, store.name)
    IN  IF force
        THEN [base EXCEPT !.log = {"mock.getPrices"}]
        ELSE IF Len(cachedPrices) >= 1
             THEN pipeSettle([base EXCEPT !.via = "cache", !.log = {"cache.get"}],
                             store, its, cacheResult(cachedPrices))
             ELSE IF provider = MockProviderName
                  THEN [base EXCEPT !.via = "selectedMock",
                                    !.provider = provider,
                                    !.log = {"cache.get", "selectProvider",
                                             "mock.isAvailable", "mock.getPrices"}]
                  ELSE [base EXCEPT !.pc = "isAvailable", !.via = "provider",
                                    !.provider = provider,
                                    !.log = {"cache.get", "selectProvider",
                                             "provider.isAvailable"}]

\* getStoreWithPrices and getPricesForStore up to their first suspension.
startPipe(force, provs, cache, store, its) ==
    LET base == [pc |-> "mockDelay", via |-> "forced", provider |-> NoProvider,
                 reason |-> NoReason, gp |-> gpPending, row |-> NoRow,
                 log |-> {}]
        cachedPrices == getPricesFromCache(cache, store.name, its)
        provider == selectProvider(provs, store.name)
    IN  IF force
        THEN [base EXCEPT !.log = {"mock.getPrices"}]
        ELSE IF Len(cachedPrices) = Len(its)
             THEN pipeSettle([base EXCEPT !.via = "cache", !.log = {"cache.get"}],
                             store, its, cacheResult(cachedPrices))
             ELSE IF provider = MockProviderName
                  \* MockProvider.isAvailable resolves true at once
                  THEN [base EXCEPT !.via = "selectedMock",
                                    !.provider = provider,
                                    !.log = {"cache.get", "selectProvider",
                                             "mock.isAvailable", "mock.getPrices"}]
                  ELSE [base EXCEPT !.pc = "isAvailable", !.via = "provider",
                                    !.provider = provider,
                                    !.log = {"cache.get", "selectProvider",
                                             "provider.isAvailable"}]

\* Mutant: the first fulfilled pipeline settles the wait (Promise.race).
promiseAll_FirstFulfilled(ps) ==
    IF \E i \in DOMAIN ps : ps[i].pc = "rejected" THEN "rejected"
    ELSE IF \E i \in DOMAIN ps : ps[i].pc = "fulfilled" THEN "fulfilled"
         ELSE "pending"

\* Promise.all over the pipelines: rejected as soon as one has rejected,
\* fulfilled once all are fulfilled.
promiseAll(ps) ==
    IF \E i \in DOMAIN ps : ps[i].pc = "rejected" THEN "rejected"
    ELSE IF \A i \in DOMAIN ps : ps[i].pc = "fulfilled" THEN "fulfilled"
         ELSE "pending"

\* What a non-mock provider's getPrices may resolve with: one entry per
\* item, in order, each price present or null.
ProviderResults(its) ==
    { [i \in 1..Len(its) |->
          [itemName |-> its[i].name, price |-> ps[i],
           currency |-> "USD", isMockData |-> FALSE, src |-> "provider"]] :
      ps \in [1..Len(its) -> ProviderPrices \cup {NullPrice}] }

(* ----------------------- StoreDiscoveryService ------------------------ *)

\* Coordinates are kept in units of 0.0001 degree.  toFixed(3) gives the sign
\* and the thousandths, rounded half away from zero ("-0.000" is not "0.000").
toFixed3(x) ==
    LET magnitude == IF x < 0 THEN -x ELSE x
    IN  <<x < 0, (magnitude + 5) \div 10>>

getStoreKey(lat, lng, radius) == <<toFixed3(lat), toFixed3(lng), radius>>

getStores_NeverHits(cache, lat, lng, radius) ==
    [hit |-> FALSE, stores |-> <<>>]

\* getStores: "cached || null"; an array, even an empty one, is truthy.
getStores(cache, lat, lng, radius) ==
    LET key == getStoreKey(lat, lng, radius)
    IN  IF key \in DOMAIN cache
        THEN [hit |-> TRUE, stores |-> cache[key]]
        ELSE [hit |-> FALSE, stores |-> <<>>]

setStores(cache, lat, lng, radius, found) ==
    LET key == getStoreKey(lat, lng, radius)
    IN  [k \in (DOMAIN cache) \cup {key} |-> IF k = key THEN found ELSE cache[k]]

DEFAULT_RADIUS_METERS == 8000

NoDistance == 0   \* distance: undefined; the comparator reads it as 0

\* stores.sort((a, b) => (a.distance || 0) - (b.distance || 0)):
\* Array.prototype.sort with a consistent comparator: the stable order.
RECURSIVE sortByDistance(_)
sortByDistance(found) ==
    IF found = <<>> THEN <<>>
    ELSE LET init == sortByDistance(SubSeq(found, 1, Len(found) - 1))
             last == found[Len(found)]
             before == SelectSeq(init, LAMBDA st : st.distance <= last.distance)
             after == SelectSeq(init, LAMBDA st : st.distance > last.distance)
         IN  before \o <<last>> \o after

slice10(found) == SubSeq(found, 1, IF Len(found) < 10 THEN Len(found) ELSE 10)

\* convertGeoapifyFeaturesToStores / convertOSMElementsToStores: places
\* without a name (and, for Overpass, without coordinates) are skipped.
RECURSIVE convertPlaces(_, _)
convertPlaces(impl, places) ==
    IF places = <<>> THEN <<>>
    ELSE LET place == Head(places)
             rest == convertPlaces(impl, Tail(places))
         IN  IF impl = "overpass" /\ ~place.located THEN rest
             ELSE IF place.name = "" THEN rest
                  ELSE <<[id |-> (IF impl = "overpass" THEN "osm-node-" ELSE "geoapify-")
                                 \o place.id,
                          name |-> place.name,
                          address |-> place.address,
                          distance |-> place.distance]>> \o rest

convertToStores(impl, places) == slice10(sortByDistance(convertPlaces(impl, places)))

\* calculateMockDistance: 1000 + (|floor(lat * lng * 1000)| + index * 1000) % 6000
calculateMockDistance(lat, lng, index) ==
    LET floored == (lat * lng) \div 100000
        hash == (IF floored < 0 THEN -floored ELSE floored) + index * 1000
    IN  1000 + (hash % 6000)

getMockStores(lat, lng) ==
    sortByDistance(
        << [id |-> "walmart-1", name |-> "Walmart Supercenter",
            address |-> "123 Main St, City, ST 12345",
            distance |-> calculateMockDistance(lat, lng, 0)],
           [id |-> "target-1", name |-> "Target",
            address |-> "456 Oak Ave, City, ST 12345",
            distance |-> calculateMockDistance(lat, lng, 1)],
           [id |-> "walmart-2", name |-> "Walmart Neighborhood Market",
            address |-> "789 Elm St, City, ST 12345",
            distance |-> calculateMockDistance(lat, lng, 2)],
           [id |-> "target-2", name |-> "Target",
            address |-> "321 Pine Rd, City, ST 12345",
            distance |-> calculateMockDistance(lat, lng, 3)] >>)

\* Locations and radii of findNearbyStores calls, and what the places API
\* may answer: places with or without a name, coordinates and distance.
Latitudes == {40713, 40714, 40718}
Longitudes == {-7401}
Radii == {DEFAULT_RADIUS_METERS, 5000}

Places ==
    { [id |-> "51", name |-> "Walmart Supercenter", located |-> TRUE,
       address |-> "1 First St", distance |-> 2300],
      [id |-> "52", name |-> "", located |-> TRUE,
       address |-> "Address not available", distance |-> 900],
      [id |-> "53", name |-> "Target", located |-> FALSE,
       address |-> "3 Third St", distance |-> NoDistance] }

ApiResponses == DistinctSeqs(Places, MaxElements)

\* The service between two calls: which client it was built on, whether the
\* Geoapify key is configured, and the calls served so far.  lastMock is the
\* cache key of the previous call if that call returned the mock list.
NoKey == <<>>

discIdle(impl, configured, n) ==
    [impl |-> impl, configured |-> configured, pc |-> "idle",
     lat |-> 0, lng |-> 0, radius |-> 0,
     via |-> "none", why |-> "none", ret |-> <<>>, n |-> n,
     lastMock |-> NoKey]

(* --------------------------- OverpassClient --------------------------- *)

minRequestInterval == 1000   \* OVERPASS_RATE_LIMIT_MS default, in ms

\* Date.now() is read in steps of TickMs; the process has been up for longer
\* than minRequestInterval when the first findStores call arrives.
TickMs == 250
StartTime == 2000

\* The client as constructed: lastRequestTime = 0, no findStores call yet,
\* no request sent.
overpassClientNew ==
    [now |-> StartTime,
     lastRequestTime |-> 0,
     calls |-> [c \in 1..MaxClientCalls |-> [pc |-> "new", wake |-> 0]],
     sent |-> <<>>]

\* enforceRateLimit up to its await: the wait it decides on (0: no wait)
waitTime(now, lastRequestTime) ==
    LET timeSinceLastRequest == now - lastRequestTime
    IN  IF timeSinceLastRequest < minRequestInterval
        THEN minRequestInterval - timeSinceLastRequest
        ELSE 0

\* end of enforceRateLimit and start of the request: lastRequestTime is set
\* and axios.post is issued in the same turn of the event loop.
sendRequest(client, c) ==
    [client EXCEPT !.lastRequestTime = client.now,
                   !.sent = Append(@, client.now),
                   !.calls[c].pc = "requesting"]

(* ------------------------- POST /compare handler ------------------------ *)

\* Fields of req.body: a field that is absent, a number (coordinates in
\* whole degrees), a value that is not an array, an array of a given length.
Missing == [t |-> "undefined", v |-> 0]
Num(n) == [t |-> "number", v |-> n]
NotAnArray == [t |-> "object", v |-> 1]
ArrayOf(n) == [t |-> "array", v |-> n]

BodyLatitudes == {Missing} \cup {Num(n) : n \in {-91, -90, -45, 0, 45, 90, 91}}
BodyLongitudes == {Missing} \cup {Num(n) : n \in {-181, -180, -74, 0, 74, 180, 181}}
BodyItems == {Missing, NotAnArray} \cup {ArrayOf(n) : n \in 0..MaxItems}

\* !x of JavaScript: undefined and the number 0 are falsy; objects and
\* arrays, also the empty array, are truthy.
not(x) == x.t = "undefined" \/ (x.t = "number" /\ x.v = 0)

isArray(x) == x.t = "array"

\* The validation of the handler: the status it answers with at once, or
\* Proceed when it goes on to findNearbyStores and compareStores.
Proceed == 0

validateCompare(latitude, longitude, body) ==
    IF not(latitude) \/ not(longitude) \/ not(body) \/ ~isArray(body)
    THEN 400
    ELSE IF body.v = 0 THEN 400
    ELSE IF latitude.v < -90 \/ latitude.v > 90
              \/ longitude.v < -180 \/ longitude.v > 180 THEN 400
    ELSE Proceed

\* No request in progress, n requests answered so far.
noRequest(n) ==
    [pc |-> "idle", latitude |-> Missing, longitude |-> Missing,
     items |-> Missing, status |-> Proceed, n |-> n]

(* ------------------------------ actions ------------------------------- *)

Init ==
    /\ forceMockData \in BOOLEAN
    /\ providers = registerProvider(<<>>, MockKey, MockProviderName)
    /\ priceCache = <<>>
    /\ phase = "idle"
    /\ stores = <<>>
    /\ items = <<>>
    /\ pipes = <<>>
    /\ result = <<>>
    /\ nCalls = 0
    /\ storeCache = <<>>
    /\ disc = discIdle("geoapify", TRUE, 0)
    /\ overpass = overpassClientNew
    /\ request = noRequest(0)

\* registerProvider is called while the process is set up, before it serves.
RegisterProvider(name) ==
    /\ phase = "idle"
    /\ nCalls = 0
    /\ providers' = registerProvider(providers, name, ScraperFor(name))
    /\ providers' # providers
    /\ UNCHANGED <<forceMockData, priceCache, phase, stores, items, pipes,
                   result, nCalls>>
    /\ UNCHANGED discoveryVars

\* compareStores(ss, its) up to "await Promise.all": stores.map starts every
\* pipeline, each running to its first suspension.
StartCompare(ss, its) ==
    /\ phase = "idle"
    /\ nCalls < MaxCalls
    /\ nCalls' = nCalls + 1
    /\ phase' = "running"
    /\ stores' = ss
    /\ items' = its
    /\ pipes' = [i \in 1..Len(ss) |->
                    startPipe(forceMockData, providers, priceCache, ss[i], its)]
    /\ result' = <<>>
    /\ UNCHANGED <<forceMockData, providers, priceCache>>
    /\ UNCHANGED discoveryVars

\* provider.isAvailable() of a non-mock provider settles.
IsAvailableSettles(i, outcome, e) ==
    /\ phase = "running"
    /\ i \in DOMAIN pipes
    /\ pipes[i].pc = "isAvailable"
    /\ \/ /\ outcome = "true"
          /\ pipes' = [pipes EXCEPT ![i] =
                         [@ EXCEPT !.pc = "getPrices",
                                   !.log = @ \cup {"provider.getPrices"}]]
       \/ /\ outcome = "false"
          /\ pipes' = [pipes EXCEPT ![i] =
                         pipeFallback(@, NotAvailableError(pipes[i].provider))]
       \/ /\ outcome = "reject"
          /\ pipes' = [pipes EXCEPT ![i] = pipeFallback(@, e)]
    /\ UNCHANGED <<forceMockData, providers, priceCache, phase, stores, items,
                   result, nCalls>>
    /\ UNCHANGED discoveryVars

\* provider.getPrices(items) of a non-mock provider resolves with prices.
GetPricesResolves(i, prices) ==
    /\ phase = "running"
    /\ i \in DOMAIN pipes
    /\ pipes[i].pc = "getPrices"
    /\ priceCache' = cachePrices(priceCache, stores[i].name, items, prices)
    /\ pipes' = [pipes EXCEPT ![i] =
                   pipeSettle([@ EXCEPT !.log =
                                  IF cachePricesWrites(items, prices)
                                  THEN @ \cup {"cache.set"} ELSE @],
                              stores[i], items,
                              providerResult(pipes[i].provider, prices))]
    /\ UNCHANGED <<forceMockData, providers, phase, stores, items, result, nCalls>>
    /\ UNCHANGED discoveryVars

\* provider.getPrices(items) of a non-mock provider rejects with e.
GetPricesRejects(i, e) ==
    /\ phase = "running"
    /\ i \in DOMAIN pipes
    /\ pipes[i].pc = "getPrices"
    /\ pipes' = [pipes EXCEPT ![i] = pipeFallback(@, e)]
    /\ UNCHANGED <<forceMockData, providers, priceCache, phase, stores, items,
                   result, nCalls>>
    /\ UNCHANGED discoveryVars

\* The delay of mockProvider.getPrices elapses and its items.map runs.
MockDelayFires(i) ==
    /\ phase = "running"
    /\ i \in DOMAIN pipes
    /\ pipes[i].pc = "mockDelay"
    /\ LET p == pipes[i]
           prices == mockGetPrices(items)
       IN  IF mockThrows(items)
           THEN /\ pipes' = [pipes EXCEPT ![i] =
                               IF p.via = "selectedMock"
                               THEN pipeFallback(p, TypeErrorValue)
                               ELSE pipeSettle(p, stores[i], items,
                                               gpRejected(TypeErrorValue))]
                /\ UNCHANGED priceCache
           ELSE IF p.via = "forced"
                THEN /\ pipes' = [pipes EXCEPT ![i] =
                                    pipeSettle(p, stores[i], items,
                                               forcedResult(prices))]
                     /\ UNCHANGED priceCache
                ELSE IF p.via = "selectedMock"
                     THEN /\ priceCache' = cachePrices(priceCache, stores[i].name,
                                                       items, prices)
                          /\ pipes' = [pipes EXCEPT ![i] =
                                         pipeSettle([p EXCEPT !.log =
                                                        IF cachePricesWrites(items, prices)
                                                        THEN @ \cup {"cache.set"} ELSE @],
                                                    stores[i], items,
                                                    providerResult(p.provider, prices))]
                     ELSE /\ pipes' = [pipes EXCEPT ![i] =
                                         pipeSettle(p, stores[i], items,
                                                    fallbackResult(prices, p.reason))]
                          /\ UNCHANGED priceCache
    /\ UNCHANGED <<forceMockData, providers, phase, stores, items, result, nCalls>>
    /\ UNCHANGED discoveryVars

\* "await Promise.all(storePromises)" settles: it rejects as soon as one
\* pipeline has rejected, and otherwise resolves once all are fulfilled; the
\* rows are then sorted and returned.
CompareSettles ==
    /\ phase = "running"
    /\ promiseAll(pipes) # "pending"
    /\ IF promiseAll(pipes) = "rejected"
       THEN /\ phase' = "rejected"
            /\ result' = <<>>
       ELSE /\ phase' = "resolved"
            /\ result' = arraySort([i \in DOMAIN pipes |-> pipes[i].row])
    /\ UNCHANGED <<forceMockData, providers, priceCache, stores, items, pipes, nCalls>>
    /\ UNCHANGED discoveryVars

\* The caller is done with the settled call (POST /compare has answered).
CallerDone ==
    /\ phase \in {"resolved", "rejected"}
    /\ phase' = "idle"
    /\ stores' = <<>>
    /\ items' = <<>>
    /\ pipes' = <<>>
    /\ result' = <<>>
    /\ UNCHANGED <<forceMockData, providers, priceCache, nCalls>>
    /\ UNCHANGED discoveryVars

\* A price entry reaches its TTL and NodeCache drops it.  A pipeline reads
\* the cache only in the step that starts it, so expiry between two calls
\* covers every lookup result that expiry during a call can produce.
PriceExpires(key) ==
    /\ phase = "idle"
    /\ key \in DOMAIN priceCache
    /\ priceCache' = [k \in (DOMAIN priceCache) \ {key} |-> priceCache[k]]
    /\ UNCHANGED <<forceMockData, providers, phase, stores, items, pipes,
                   result, nCalls>>
    /\ UNCHANGED discoveryVars

Steps ==
    \/ \E i \in DOMAIN pipes, outcome \in {"true", "false", "reject"},
          e \in ThrownValues : IsAvailableSettles(i, outcome, e)
    \/ \E i \in DOMAIN pipes :
          \E prices \in ProviderResults(items) : GetPricesResolves(i, prices)
    \/ \E i \in DOMAIN pipes, e \in ThrownValues : GetPricesRejects(i, e)
    \/ \E i \in DOMAIN pipes : MockDelayFires(i)
    \/ CompareSettles
    \/ CallerDone
    \/ \E key \in DOMAIN priceCache : PriceExpires(key)

Next ==
    \/ \E name \in RegNames : RegisterProvider(name)
    \/ \E ss \in StoreLists, its \in ItemLists : StartCompare(ss, its)
    \/ Steps

\* The first compareStores call of the process, over up to MaxBatchStores stores.
StartFirstCompare(ss, its) ==
    /\ nCalls = 0
    /\ StartCompare(ss, its)

NextBatch ==
    \/ \E name \in RegNames : RegisterProvider(name)
    \/ \E ss \in BatchStoreLists, its \in ItemLists : StartFirstCompare(ss, its)
    \/ Steps

Spec == Init /\ [][Next]_vars

SpecBatch == Init /\ [][NextBatch]_vars

\* The process as constructed: no registerProvider call, every store is
\* priced by the mock provider.
NextMock ==
    \/ \E ss \in MockStoreLists, its \in MockItemLists : StartCompare(ss, its)
    \/ \E i \in DOMAIN pipes : MockDelayFires(i)
    \/ CompareSettles
    \/ CallerDone

SpecMock == Init /\ [][NextMock]_vars

\* Calls for one store and one product: with FirstQuantity in the first
\* call of the process, with another quantity in the calls that follow.
StartQuantityCompare(ss, its) ==
    /\ (nCalls = 0) <=> (its[1].quantity = FirstQuantity)
    /\ StartCompare(ss, its)

NextQuantity ==
    \/ \E name \in RegNames : RegisterProvider(name)
    \/ \E ss \in QuantityStoreLists, its \in QuantityItemLists :
          StartQuantityCompare(ss, its)
    \/ Steps

SpecQuantity == Init /\ [][NextQuantity]_vars

\* One getPricesForStore call for one store, under any registration.
NextSelect ==
    \/ \E name \in SelectRegNames : RegisterProvider(name)
    \/ \E ss \in SelectStoreLists, its \in SelectItemLists : StartFirstCompare(ss, its)
    \/ Steps

SpecSelect == Init /\ [][NextSelect]_vars

\* The store discovery service of a process built on either places client,
\* with or without an API key.
InitDiscovery ==
    /\ forceMockData = TRUE
    /\ providers = registerProvider(<<>>, MockKey, MockProviderName)
    /\ priceCache = <<>>
    /\ phase = "idle"
    /\ stores = <<>>
    /\ items = <<>>
    /\ pipes = <<>>
    /\ result = <<>>
    /\ nCalls = 0
    /\ storeCache = <<>>
    /\ disc \in {discIdle(impl, configured, 0) :
                    impl \in {"geoapify", "overpass"}, configured \in BOOLEAN}
    /\ overpass = overpassClientNew
    /\ request = noRequest(0)

\* findNearbyStores(lat, lng, radius) up to its first await: the cache
\* lookup, and for Geoapify the isConfigured test.
StartFind(lat, lng, radius) ==
    /\ disc.pc = "idle"
    /\ disc.n < MaxFinds
    /\ LET cached == getStores(storeCache, lat, lng, radius)
           call == [disc EXCEPT !.lat = lat, !.lng = lng, !.radius = radius,
                                !.n = @ + 1]
       IN  disc' =
               IF cached.hit
               THEN [call EXCEPT !.pc = "returned", !.via = "cache",
                                 !.ret = cached.stores]
               ELSE IF disc.impl = "geoapify" /\ ~disc.configured
                    THEN [call EXCEPT !.pc = "mockDelay", !.why = "notConfigured"]
                    ELSE [call EXCEPT !.pc = "apiCall"]
    /\ UNCHANGED storeCache
    /\ UNCHANGED pipelineVars
    /\ UNCHANGED clientVars

\* The client's findStores resolves with places.
FindStoresResolves(places) ==
    /\ disc.pc = "apiCall"
    /\ LET found == convertToStores(disc.impl, places)
       IN  IF disc.impl = "geoapify" /\ Len(found) = 0
           THEN /\ disc' = [disc EXCEPT !.pc = "mockDelay", !.why = "empty"]
                /\ UNCHANGED storeCache
           ELSE /\ storeCache' = setStores(storeCache, disc.lat, disc.lng,
                                           disc.radius, found)
                /\ disc' = [disc EXCEPT !.pc = "returned", !.via = "api",
                                        !.why = IF Len(found) = 0 THEN "empty"
                                                ELSE "none",
                                        !.ret = found]
    /\ UNCHANGED pipelineVars
    /\ UNCHANGED clientVars

\* The client's findStores rejects (network error, timeout, HTTP error).
FindStoresRejects ==
    /\ disc.pc = "apiCall"
    /\ disc' = [disc EXCEPT !.pc = "mockDelay", !.why = "error"]
    /\ UNCHANGED storeCache
    /\ UNCHANGED pipelineVars
    /\ UNCHANGED clientVars

\* The delay of getMockStores elapses; the mock list is returned, not cached.
MockStoresDelayFires ==
    /\ disc.pc = "mockDelay"
    /\ disc' = [disc EXCEPT !.pc = "returned", !.via = "mock",
                            !.ret = getMockStores(disc.lat, disc.lng)]
    /\ UNCHANGED storeCache
    /\ UNCHANGED pipelineVars
    /\ UNCHANGED clientVars

\* The caller has the list.
FindDone ==
    /\ disc.pc = "returned"
    /\ disc' = [discIdle(disc.impl, disc.configured, disc.n) EXCEPT
                    !.lastMock = IF disc.via = "mock"
                                 THEN getStoreKey(disc.lat, disc.lng, disc.radius)
                                 ELSE NoKey]
    /\ UNCHANGED storeCache
    /\ UNCHANGED pipelineVars
    /\ UNCHANGED clientVars

\* A store cache entry reaches its TTL.
StoresExpire(key) ==
    /\ disc.pc = "idle"
    /\ key \in DOMAIN storeCache
    /\ storeCache' = [k \in (DOMAIN storeCache) \ {key} |-> storeCache[k]]
    /\ UNCHANGED disc
    /\ UNCHANGED pipelineVars
    /\ UNCHANGED clientVars

NextDiscovery ==
    \/ \E lat \in Latitudes, lng \in Longitudes, radius \in Radii :
          StartFind(lat, lng, radius)
    \/ \E places \in ApiResponses : FindStoresResolves(places)
    \/ FindStoresRejects
    \/ MockStoresDelayFires
    \/ FindDone
    \/ \E key \in DOMAIN storeCache : StoresExpire(key)

SpecDiscovery == InitDiscovery /\ [][NextDiscovery]_vars

\* Time passes; timers may fire late, never early.
Tick ==
    /\ overpass.now + TickMs <= MaxTime
    /\ overpass' = [overpass EXCEPT !.now = @ + TickMs]
    /\ UNCHANGED pipelineVars
    /\ UNCHANGED <<storeCache, disc, request>>

\* overpassClient.findStores is called: enforceRateLimit reads the clock and
\* lastRequestTime and either goes on at once or sets its timer.
CallFindStores(c) ==
    /\ overpass.calls[c].pc = "new"
    /\ LET wait == waitTime(overpass.now, overpass.lastRequestTime)
       IN  overpass' =
               IF wait > 0
               THEN [overpass EXCEPT !.calls[c] =
                                         [pc |-> "waiting", wake |-> overpass.now + wait]]
               ELSE sendRequest(overpass, c)
    /\ UNCHANGED pipelineVars
    /\ UNCHANGED <<storeCache, disc, request>>

\* The timer of a waiting enforceRateLimit fires.
RateLimitTimerFires(c) ==
    /\ overpass.calls[c].pc = "waiting"
    /\ overpass.now >= overpass.calls[c].wake
    /\ overpass' = sendRequest(overpass, c)
    /\ UNCHANGED pipelineVars
    /\ UNCHANGED <<storeCache, disc, request>>

\* axios.post settles (answer, timeout or error) and findStores returns or throws.
RequestSettles(c) ==
    /\ overpass.calls[c].pc = "requesting"
    /\ overpass' = [overpass EXCEPT !.calls[c].pc = "done"]
    /\ UNCHANGED pipelineVars
    /\ UNCHANGED <<storeCache, disc, request>>

NextRateLimit ==
    \/ Tick
    \/ \E c \in 1..MaxClientCalls : CallFindStores(c)
    \/ \E c \in 1..MaxClientCalls : RateLimitTimerFires(c)
    \/ \E c \in 1..MaxClientCalls : RequestSettles(c)

SpecRateLimit == Init /\ [][NextRateLimit]_vars

\* POST /compare arrives: the handler validates the body and either answers
\* 400 or calls findNearbyStores.
PostCompare(latitude, longitude, body) ==
    /\ request.pc = "idle"
    /\ request.n < MaxRequests
    /\ LET status == validateCompare(latitude, longitude, body)
       IN  request' = [pc |-> IF status = Proceed THEN "findNearbyStores"
                              ELSE "answered",
                       latitude |-> latitude, longitude |-> longitude,
                       items |-> body, status |-> status, n |-> request.n]
    /\ UNCHANGED pipelineVars
    /\ UNCHANGED serviceVars

\* Discovery and aggregation are over: res.json(response), or 500 from the
\* catch when one of them threw.
CompareAnswers(status) ==
    /\ request.pc = "findNearbyStores"
    /\ request' = [request EXCEPT !.pc = "answered", !.status = status]
    /\ UNCHANGED pipelineVars
    /\ UNCHANGED serviceVars

\* The response is sent.
RequestDone ==
    /\ request.pc = "answered"
    /\ request' = noRequest(request.n + 1)
    /\ UNCHANGED pipelineVars
    /\ UNCHANGED serviceVars

NextHandler ==
    \/ \E latitude \in BodyLatitudes, longitude \in BodyLongitudes,
          body \in BodyItems : PostCompare(latitude, longitude, body)
    \/ \E status \in {200, 500} : CompareAnswers(status)
    \/ RequestDone

SpecHandler == Init /\ [][NextHandler]_vars

(* ------------------------------- claims ------------------------------- *)

Resolved == phase = "resolved"

\* the (settled) pipeline that built a row of the result
PipeOfRow(row) == CHOOSE i \in DOMAIN pipes : stores[i].id = row.id

ErrorPath(i) == pipes[i].pc = "fulfilled" /\ pipes[i].gp.state = "rejected"

AllPresent(prices) == \A k \in DOMAIN prices : prices[k].price # NullPrice

\* C1: compareStores never rejects and no per-store pipeline rejects; once it
\* has resolved, the result holds exactly one row for every input store (same
\* count, same ids), whatever each pipeline did.
C1_OneRowPerStore ==
    /\ phase # "rejected"
    /\ \A i \in DOMAIN pipes : pipes[i].pc # "rejected"
    /\ Resolved =>
          /\ Len(result) = Len(stores)
          /\ \A i \in DOMAIN stores :
                Cardinality({j \in DOMAIN result : result[j].id = stores[i].id}) = 1

\* a call has resolved although the mock fallback of one store threw, next
\* to a store whose provider succeeded
C1_Witness ==
    /\ Resolved
    /\ Len(stores) = 2
    /\ \E i \in DOMAIN pipes : pipes[i].via = "fallback" /\ ErrorPath(i)
    /\ \E j \in DOMAIN pipes : pipes[j].via = "provider" /\ pipes[j].gp.state = "resolved"

\* C2: in every row of a result, total is present iff every item price of
\* the row is present.
C2_TotalIffAllPrices ==
    Resolved =>
        \A j \in DOMAIN result :
            (result[j].total # NullPrice) <=> AllPresent(result[j].items)

\* a row with one present and one absent price, next to a row with a total
C2_Witness ==
    /\ Resolved
    /\ \E j \in DOMAIN result :
          /\ result[j].total = NullPrice
          /\ \E k \in DOMAIN result[j].items : result[j].items[k].price # NullPrice
          /\ \E k \in DOMAIN result[j].items : result[j].items[k].price = NullPrice
    /\ \E j \in DOMAIN result : result[j].total # NullPrice

\* C3: every row of a result has one entry per input item, entry k carrying
\* the name of input item k (and, when the mock priced it, the mock price of
\* input item k).
C3_ItemsParallelToInput ==
    Resolved =>
        \A j \in DOMAIN result :
            /\ Len(result[j].items) = Len(items)
            /\ \A k \in DOMAIN items :
                  /\ result[j].items[k].itemName = items[k].name
                  /\ result[j].items[k].src = "mock" =>
                        result[j].items[k].price =
                            generatePrice(items[k].name, items[k].quantity)

\* a row of two items served from the cache
C3_Witness ==
    /\ Resolved
    /\ Len(items) = 2
    /\ \E j \in DOMAIN result :
          \A k \in DOMAIN result[j].items : result[j].items[k].src = "cache"

\* C4: a row has usedMockData = true exactly when the mock provider produced
\* one of its prices or the row was built on the error path, and
\* usedMockData = false exactly when every price came from the cache or from
\* a non-mock provider.
C4_UsedMockDataIffMock ==
    Resolved =>
        \A j \in DOMAIN result :
            LET row == result[j]
            IN  /\ row.usedMockData <=>
                      \/ \E k \in DOMAIN row.items : row.items[k].src = "mock"
                      \/ ErrorPath(PipeOfRow(row))
                /\ ~row.usedMockData <=>
                      \A k \in DOMAIN row.items :
                          row.items[k].src \in {"cache", "provider"}

\* an error-path row next to a row priced by a non-mock provider
C4_Witness ==
    /\ Resolved
    /\ \E j \in DOMAIN result :
          result[j].usedMockData /\ ErrorPath(PipeOfRow(result[j]))
    /\ \E j \in DOMAIN result :
          /\ ~result[j].usedMockData
          /\ \E k \in DOMAIN result[j].items : result[j].items[k].src = "provider"

\* C5: in a result no row with an absent total comes before a row with a
\* present total.
C5_AbsentTotalsLast ==
    Resolved =>
        \A i, j \in DOMAIN result :
            i < j => ~(result[i].total = NullPrice /\ result[j].total # NullPrice)

\* three stores, the first two (in input order) without a total
C5_Witness ==
    /\ Resolved
    /\ Len(stores) = 3
    /\ pipes[1].row.total = NullPrice
    /\ pipes[2].row.total = NullPrice
    /\ pipes[3].row.total # NullPrice

\* C6 as stated: for two rows with present totals, A is before B if and only
\* if A.total <= B.total.
C6_BeforeIffLessOrEqual ==
    Resolved =>
        \A i, j \in DOMAIN result :
            (i # j /\ result[i].total # NullPrice /\ result[j].total # NullPrice)
            => ((i < j) <=> (result[i].total <= result[j].total))

\* C6 as amended: for two rows with present totals, A is before B only if
\* A.total <= B.total (rows with equal totals come in either order).
C6_SortedByTotal ==
    Resolved =>
        \A i, j \in DOMAIN result :
            (i < j /\ result[i].total # NullPrice /\ result[j].total # NullPrice)
            => result[i].total <= result[j].total

\* three stores whose totals are present and strictly descending in input order
C6_Witness ==
    /\ Resolved
    /\ Len(stores) = 3
    /\ pipes[3].row.total # NullPrice
    /\ pipes[2].row.total > pipes[3].row.total
    /\ pipes[1].row.total > pipes[2].row.total

\* the scenario of C7: two stores, the provider of store i threw, the
\* provider of store j resolved with every price present
ProviderThrew(i) ==
    /\ pipes[i].via = "fallback"
    /\ pipes[i].provider # MockProviderName
    /\ pipes[i].reason \in {ScraperFailedReason(e) : e \in ThrownValues}

ProviderSucceeded(j) ==
    /\ pipes[j].via = "provider"
    /\ pipes[j].gp.state = "resolved"
    /\ AllPresent(pipes[j].gp.prices)

C7_Scenario(i, j) ==
    /\ Resolved
    /\ Len(stores) = 2
    /\ i # j
    /\ ProviderThrew(i)
    /\ ProviderSucceeded(j)

\* C7 as stated: the result has two rows, the failing store's total is absent
\* and the succeeding store is listed first.
C7_FailingStoreHasNoTotal ==
    \A i, j \in DOMAIN pipes :
        C7_Scenario(i, j) =>
            /\ Len(result) = 2
            /\ pipes[i].row.total = NullPrice
            /\ result[1].id = stores[j].id

\* C7 as amended: the result has two rows and the failing store's row is
\* flagged usedMockData with a reason; it carries the mock fallback's prices,
\* its total is their sum and the two rows are ordered by total (the failing
\* store first when its mock total is the lower); only when the mock fallback
\* itself threw is its total absent and the succeeding store first.
C7_FailingStoreGetsMockPrices ==
    \A i, j \in DOMAIN pipes :
        C7_Scenario(i, j) =>
            /\ Len(result) = 2
            /\ pipes[i].row.usedMockData
            /\ pipes[i].row.mockDataReason # NoReason
            /\ IF mockThrows(items)
               THEN /\ pipes[i].row.total = NullPrice
                    /\ result[1].id = stores[j].id
               ELSE /\ pipes[i].row.items = mockGetPrices(items)
                    /\ pipes[i].row.total # NullPrice
                    /\ pipes[i].row.total = calculateTotal(mockGetPrices(items))
                    /\ pipes[i].row.total < pipes[j].row.total
                          => result[1].id = stores[i].id
                    /\ pipes[i].row.total > pipes[j].row.total
                          => result[1].id = stores[j].id

\* the failing store, second in input order, is listed first with a total
C7_Witness ==
    /\ C7_Scenario(2, 1)
    /\ result[1].id = stores[2].id
    /\ result[1].total # NullPrice
    /\ result[1].total < result[2].total

\* C8 as stated: once a non-mock provider was selected and failed
\* (unavailable, isAvailable rejected or getPrices threw), getPricesForStore
\* resolves with one price per item, usedMockData = true and a reason.
C8_FallbackGuarantee ==
    \A i \in DOMAIN pipes :
        (/\ pipes[i].via = "fallback"
         /\ pipes[i].provider # MockProviderName
         /\ pipes[i].pc = "fulfilled")
        => /\ pipes[i].gp.state = "resolved"
           /\ Len(pipes[i].gp.prices) = Len(items)
           /\ pipes[i].gp.usedMockData
           /\ pipes[i].gp.mockDataReason # NoReason

\* C9 as stated: with forceMockData set no pipeline touches the price cache
\* or a provider other than the mock, every getPricesForStore call returns
\* the mock prices with the demo reason, and every row of a result has
\* usedMockData = true and only isMockData items.
C9_ForcedMock ==
    forceMockData =>
        /\ DOMAIN priceCache = {}
        /\ \A i \in DOMAIN pipes :
              /\ pipes[i].log \subseteq {"mock.getPrices"}
              /\ pipes[i].pc = "fulfilled" =>
                    /\ pipes[i].gp.state = "resolved"
                    /\ pipes[i].gp = forcedResult(mockGetPrices(items))
        /\ Resolved =>
              \A j \in DOMAIN result :
                  /\ result[j].usedMockData
                  /\ \A k \in DOMAIN result[j].items : result[j].items[k].isMockData

FullCacheHit(cache, store, its) ==
    \A k \in DOMAIN its : getPrice(cache, store.name, its[k].productId) # NullPrice

\* C10: when a call starts with forced mock off and every item of the request
\* has a cached price for a store, that store's getPricesForStore resolves at
\* once with exactly those cached prices in input order, usedMockData and
\* every isMockData false, having read the cache and nothing else: no
\* provider was selected, isAvailable and getPrices did not run.
C10_FullCacheHitBypassesProviders ==
    [][(phase = "idle" /\ phase' = "running" /\ ~forceMockData) =>
          \A i \in DOMAIN stores' :
              FullCacheHit(priceCache, stores'[i], items') =>
                  /\ pipes'[i].pc = "fulfilled"
                  /\ pipes'[i].gp.state = "resolved"
                  /\ ~pipes'[i].gp.usedMockData
                  /\ Len(pipes'[i].gp.prices) = Len(items')
                  /\ \A k \in DOMAIN items' :
                        /\ pipes'[i].gp.prices[k].price =
                              getPrice(priceCache, stores'[i].name, items'[k].productId)
                        /\ pipes'[i].gp.prices[k].itemName = items'[k].name
                        /\ ~pipes'[i].gp.prices[k].isMockData
                  /\ pipes'[i].log = {"cache.get"}
                  /\ pipes'[i].provider = NoProvider]_vars

\* a pipeline of a two-item request was served from the cache
C10_Witness ==
    /\ Len(items) = 2
    /\ \E i \in DOMAIN pipes :
          /\ pipes[i].via = "cache"
          /\ pipes[i].log = {"cache.get"}
          /\ items[1].productId > items[2].productId

\* number of items of its that have a cached price for the store
CacheHits(cache, store, its) ==
    Cardinality({k \in DOMAIN its :
                    getPrice(cache, store.name, its[k].productId) # NullPrice})

PartialCacheHit(cache, store, its) ==
    /\ CacheHits(cache, store, its) >= 1
    /\ CacheHits(cache, store, its) < Len(its)

\* C11: when a call starts with forced mock off and some but not all items
\* have a cached price for a store, that store's getPricesForStore goes on to
\* the selected provider for the whole item list; and no getPricesForStore
\* result mixes origins: a result served by a provider holds only that
\* provider's prices, a result of the mock (selected or as fallback) only
\* mock prices, and cached prices appear only in a full cache hit.
C11_PartialHitDiscarded ==
    /\ [][(phase = "idle" /\ phase' = "running" /\ ~forceMockData) =>
             \A i \in DOMAIN stores' :
                 PartialCacheHit(priceCache, stores'[i], items') =>
                     /\ pipes'[i].pc \in {"isAvailable", "mockDelay"}
                     /\ pipes'[i].via \in {"provider", "selectedMock"}
                     /\ pipes'[i].provider = selectProvider(providers, stores'[i].name)
                     /\ "selectProvider" \in pipes'[i].log
                     /\ pipes'[i].gp.state = "pending"]_vars
    /\ [](\A i \in DOMAIN pipes :
             pipes[i].gp.state = "resolved" =>
                 /\ Len(pipes[i].gp.prices) = Len(items)
                 /\ \A k \in DOMAIN pipes[i].gp.prices :
                       pipes[i].gp.prices[k].src =
                           CASE pipes[i].via = "cache" -> "cache"
                             [] pipes[i].via = "provider" -> "provider"
                             [] OTHER -> "mock")

\* a single pipeline started on a partial cache hit and is now waiting for
\* its provider's getPrices
C11_Witness ==
    /\ phase = "running"
    /\ Len(stores) = 1
    /\ Len(items) = 2
    /\ pipes[1].pc = "getPrices"
    /\ PartialCacheHit(priceCache, stores[1], items)

\* the prices the mock provider generates for the items of the catalogue
MockGeneratedPrices ==
    {generatePrice(it.name, it.quantity) : it \in {x \in ItemCatalogue : x.name # Undefined}}

\* C12: no price cache entry ever holds a price the mock provider generated,
\* and the cache gains or changes an entry only in a step in which the
\* getPrices call of a selected non-mock provider resolved: never with forced
\* mock, never after the mock was the selected provider, never after the
\* mock fallback.
C12_NoMockPriceCached ==
    /\ [](\A key \in DOMAIN priceCache :
             /\ priceCache[key] \notin MockGeneratedPrices
             /\ priceCache[key] \in ProviderPrices)
    /\ [][(\E key \in DOMAIN priceCache' :
              key \notin DOMAIN priceCache \/ priceCache'[key] # priceCache[key])
          => \E i \in DOMAIN pipes :
                 /\ pipes[i].pc = "getPrices"
                 /\ pipes[i].provider # MockProviderName
                 /\ pipes'[i].via = "provider"
                 /\ pipes'[i].gp.state = "resolved"]_vars

\* the cache holds prices while one store of the call was priced by the mock
\* as selected provider (cachePrices ran on its prices) and the other by the
\* mock as fallback
C12_Witness ==
    /\ Resolved
    /\ DOMAIN priceCache # {}
    /\ \E i \in DOMAIN pipes :
          pipes[i].via = "selectedMock" /\ pipes[i].gp.state = "resolved"
    /\ \E j \in DOMAIN pipes :
          pipes[j].via = "fallback" /\ pipes[j].gp.state = "resolved"

\* the entry of key is new or has a new value in the next state
EntryWritten(key) ==
    /\ key \in DOMAIN priceCache'
    /\ key \notin DOMAIN priceCache \/ priceCache'[key] # priceCache[key]

\* C13: the price cache never holds an absent price and setPrice with an
\* absent price leaves the cache as it is; an entry that is new or changed
\* holds a present price that a provider result of that step handed to
\* setPrice under that key, and an absent price in a provider result leaves
\* the entry of its key as it was (kept, or still missing).
C13_NoAbsentPriceCached ==
    /\ [](/\ \A key \in DOMAIN priceCache : priceCache[key] # NullPrice
          /\ \A s \in StoreCatalogue, it \in ItemCatalogue :
                /\ setPrice(priceCache, s.name, it.productId, NullPrice) = priceCache
                /\ getPrice(setPrice(priceCache, s.name, it.productId, NullPrice),
                            s.name, it.productId)
                       = getPrice(priceCache, s.name, it.productId))
    /\ [][/\ \A key \in DOMAIN priceCache' :
                EntryWritten(key) =>
                    \E i \in DOMAIN pipes, k \in DOMAIN items :
                        /\ pipes[i].pc = "getPrices"
                        /\ pipes'[i].gp.state = "resolved"
                        /\ key = getPriceKey(stores[i].name, items[k].productId)
                        /\ pipes'[i].gp.prices[k].price = priceCache'[key]
                        /\ priceCache'[key] # NullPrice
          /\ \A i \in DOMAIN pipes, k \in DOMAIN items :
                (/\ i \in DOMAIN pipes'
                 /\ pipes[i].pc = "getPrices"
                 /\ pipes'[i].gp.state = "resolved"
                 /\ pipes'[i].gp.prices[k].price = NullPrice)
                => getPrice(priceCache', stores[i].name, items[k].productId)
                      = getPrice(priceCache, stores[i].name, items[k].productId)]_vars

\* a provider result with two absent prices has been through cachePrices:
\* the first item's earlier entry is still there, the second item has none
C13_Witness ==
    /\ Len(items) = 2
    /\ \E i \in DOMAIN pipes :
          /\ pipes[i].via = "provider"
          /\ pipes[i].gp.state = "resolved"
          /\ pipes[i].gp.prices[1].price = NullPrice
          /\ pipes[i].gp.prices[2].price = NullPrice
          /\ getPrice(priceCache, stores[i].name, items[1].productId) # NullPrice
          /\ getPrice(priceCache, stores[i].name, items[2].productId) = NullPrice

\* store names and product ids of the catalogues
StoreNames == {s.name : s \in StoreCatalogue}
ProductIds == {it.productId : it \in ItemCatalogue}

\* pairs of store names that are equal once trimmed and lower-cased
SameNormalizedName ==
    {pair \in StoreNames \X StoreNames :
        toLowerCase(trim(pair[1])) = toLowerCase(trim(pair[2]))}

\* C14: on the cache as it stands between two calls (every cache content
\* the program reaches), setPrice(s, id, p) with a present p followed
\* by getPrice(s2, id2) returns p when lowercase(trim(s)) = lowercase(trim(s2))
\* and id = id2, and returns what getPrice(s2, id2) returned before the put
\* when the normalized names differ or the ids differ; a pipeline served from
\* the cache returns, under its own spelling of the store name, the prices
\* the cache holds under the normalized name.
C14_RoundTripNormalizedKey ==
    /\ phase = "idle" =>
          \A s \in StoreNames, s2 \in StoreNames, id \in ProductIds,
             id2 \in ProductIds, p \in ProviderPrices :
              LET after == setPrice(priceCache, s, id, p)
              IN  IF <<s, s2>> \in SameNormalizedName /\ id = id2
                  THEN getPrice(after, s2, id2) = p
                  ELSE getPrice(after, s2, id2) = getPrice(priceCache, s2, id2)
    /\ \A i \in DOMAIN pipes :
          (phase = "running" /\ pipes[i].via = "cache"
           /\ \A j \in DOMAIN pipes : pipes[j].pc # "fulfilled" \/ pipes[j].via = "cache")
          => \A k \in DOMAIN items :
                 /\ <<toLowerCase(trim(stores[i].name)), items[k].productId>>
                        \in DOMAIN priceCache
                 /\ pipes[i].gp.prices[k].price =
                        priceCache[<<toLowerCase(trim(stores[i].name)),
                                     items[k].productId>>]

\* a second call read, under the store name " WALMART", prices that an
\* earlier call had put; the cache also holds nothing for another product
C14_Witness ==
    /\ nCalls = 2
    /\ phase = "running"
    /\ \E i \in DOMAIN pipes :
          /\ pipes[i].via = "cache"
          /\ stores[i].name # toLowerCase(trim(stores[i].name))
          /\ Head(stores[i].name) = " "
    /\ \E id \in ProductIds : \A s \in StoreNames : getPrice(priceCache, s, id) = NullPrice

\* pipeline i's getPricesForStore resolves in this step with the result of
\* its non-mock provider's getPrices
ProviderResolvesNow(i) ==
    /\ i \in DOMAIN pipes'
    /\ pipes[i].pc = "getPrices"
    /\ pipes[i].provider # MockProviderName
    /\ pipes'[i].gp.state = "resolved"
    /\ pipes'[i].via = "provider"

\* C15: when getPricesForStore resolves with the prices of a non-mock
\* provider and every price is present, a call for the same store name and
\* the same items made on the cache as that call leaves it (forced mock off,
\* nothing expired) resolves at once from the cache: it only reads the cache,
\* calls neither isAvailable nor getPrices, and returns the prices the
\* provider returned, in order, with usedMockData false.
C15_SecondCallServedFromCache ==
    [][\A i \in DOMAIN pipes :
          (ProviderResolvesNow(i) /\ AllPresent(pipes'[i].gp.prices)) =>
              LET second == startPipe(FALSE, providers', priceCache', stores[i], items)
              IN  /\ second.pc = "fulfilled"
                  /\ second.via = "cache"
                  /\ second.log = {"cache.get"}
                  /\ second.gp.state = "resolved"
                  /\ ~second.gp.usedMockData
                  /\ Len(second.gp.prices) = Len(items)
                  /\ \A k \in DOMAIN items :
                        /\ second.gp.prices[k].price = pipes'[i].gp.prices[k].price
                        /\ second.gp.prices[k].itemName = pipes'[i].gp.prices[k].itemName]_vars

\* the second compareStores call, for one store and two items, has resolved
\* from the cache alone
C15_Witness ==
    /\ nCalls = 2
    /\ Resolved
    /\ Len(stores) = 1
    /\ Len(items) = 2
    /\ pipes[1].via = "cache"
    /\ pipes[1].log \cap {"provider.isAvailable", "provider.getPrices"} = {}
    /\ result[1].total # NullPrice
    /\ ~result[1].usedMockData

\* item.normalizedName after trim and lower-casing
NormalizedNameOf(item) == trim(toLowerCase(item.normalizedName))

\* C16 as stated: any two mock-priced entries of a call whose items have the
\* same normalized name and the same quantity carry the same price, whatever
\* the items' productId, display name and category are.
C16_MockPriceDeterminism ==
    \A i \in DOMAIN pipes, j \in DOMAIN pipes, k \in DOMAIN items, l \in DOMAIN items :
        (/\ pipes[i].gp.state = "resolved"
         /\ pipes[j].gp.state = "resolved"
         /\ pipes[i].gp.prices[k].src = "mock"
         /\ pipes[j].gp.prices[l].src = "mock"
         /\ NormalizedNameOf(items[k]) = NormalizedNameOf(items[l])
         /\ items[k].quantity = items[l].quantity)
        => pipes[i].gp.prices[k].price = pipes[j].gp.prices[l].price

\* C19 as stated: with forced mock on, one store "Walmart Supercenter" and one
\* item of normalized name "whole milk" and quantity 1, the result has one
\* row, its item is mock data, usedMockData is true and total is the mock
\* unit price for "whole milk", within 3.50 to 5.00.
C19_WholeMilkScenario ==
    (/\ forceMockData
     /\ Resolved
     /\ Len(stores) = 1
     /\ stores[1].id = "walmart-7"
     /\ Len(items) = 1
     /\ NormalizedNameOf(items[1]) = WholeMilk
     /\ items[1].quantity = 1)
    => /\ Len(result) = 1
       /\ Len(result[1].items) = 1
       /\ result[1].items[1].isMockData
       /\ result[1].usedMockData
       /\ result[1].total = generatePrice(WholeMilk, 1)
       /\ result[1].total >= 350
       /\ result[1].total <= 500

\* the brand substrings selectProvider knows, those a lower-cased store name
\* contains, and those with a registered provider
Brands == { <<"w", "a", "l", "m", "a", "r", "t">>, <<"t", "a", "r", "g", "e", "t">> }
BrandsIn(storeName) == {b \in Brands : includes(toLowerCase(storeName), b)}
Registered(b) == b \in DOMAIN providers

\* the provider a started pipeline selected, or the provider selectProvider
\* returns for a catalogue store under the current registrations
SelectionsAgree(Rule(_)) ==
    /\ \A s \in SelectStoreCatalogue : Rule(s.name)
    /\ \A i \in DOMAIN pipes :
          "selectProvider" \in pipes[i].log =>
              pipes[i].provider = selectProvider(providers, stores[i].name)

\* any registered provider of a brand the name contains may be chosen
BrandWithProviderRule(storeName) ==
    LET chosen == selectProvider(providers, storeName)
        served == {b \in BrandsIn(storeName) : Registered(b)}
    IN  IF served # {}
        THEN chosen \in {providers[b] : b \in served}
        ELSE chosen = MockProviderName

\* the first brand the name contains, walmart before target, decides
FirstBrandRule(storeName) ==
    LET chosen == selectProvider(providers, storeName)
        walmart == <<"w", "a", "l", "m", "a", "r", "t">>
        target == <<"t", "a", "r", "g", "e", "t">>
        first == IF walmart \in BrandsIn(storeName) THEN walmart ELSE target
    IN  IF BrandsIn(storeName) = {}
        THEN chosen = MockProviderName
        ELSE IF Registered(first)
             THEN chosen = providers[first] /\ chosen # MockProviderName
             ELSE chosen = MockProviderName

\* C17 as stated: a store whose name contains, in any case, a brand with a
\* registered provider gets that provider; a store whose name contains no
\* brand, or only brands without a registered provider, gets the mock
\* provider.
C17_BrandWithProviderGetsIt == SelectionsAgree(BrandWithProviderRule)

\* C17 as amended: the first brand, in the order walmart, target, that the
\* lower-cased store name contains decides: its registered provider is
\* selected, or the mock provider when none is registered under it (even if
\* the name also contains the other brand and that one has a provider); a
\* name containing no brand gets the mock provider.
C17_FirstBrandDecides == SelectionsAgree(FirstBrandRule)

\* with a provider registered for target only, the pipeline of the store
\* "Target at Walmart" has selected the mock provider
C17_Witness ==
    /\ Registered(<<"t", "a", "r", "g", "e", "t">>)
    /\ ~Registered(<<"w", "a", "l", "m", "a", "r", "t">>)
    /\ \E i \in DOMAIN pipes :
          /\ Cardinality(BrandsIn(stores[i].name)) = 2
          /\ "selectProvider" \in pipes[i].log
          /\ pipes[i].provider = MockProviderName

\* C18 as stated: findNearbyStores never rejects, and on a cache miss, when
\* the places lookup failed, was not configured or gave no store, it returns
\* the mock store list of the location, which is not empty.
C18_MockListOnExternalProblem ==
    /\ disc.pc \in {"idle", "apiCall", "mockDelay", "returned"}
    /\ (disc.pc = "returned" /\ disc.via # "cache" /\ disc.why # "none") =>
          /\ disc.ret = getMockStores(disc.lat, disc.lng)
          /\ disc.ret # <<>>

\* C20: the step that starts a compareStores call starts the pipeline of
\* every input store, none of which has yet been resumed from an await; as
\* long as one pipeline is pending the call is pending and holds no row; and
\* the sorted result appears only in a step taken when every pipeline had
\* already finished.
C20_AllStartedThenAllAwaited ==
    /\ [][(phase = "idle" /\ phase' = "running") =>
             /\ DOMAIN pipes' = DOMAIN stores'
             /\ \A i \in DOMAIN pipes' :
                   /\ pipes'[i].log # {}
                   /\ \/ pipes'[i].pc \in {"isAvailable", "mockDelay"}
                      \/ pipes'[i].via = "cache"]_vars
    /\ []((\E i \in DOMAIN pipes : pipes[i].pc # "fulfilled") =>
             (phase = "running" /\ result = <<>>))
    /\ [][(result' # result /\ result' # <<>>) =>
             /\ \A i \in DOMAIN pipes : pipes[i].pc = "fulfilled"
             /\ pipes' = pipes
             /\ result' = arraySort([i \in DOMAIN pipes |-> pipes[i].row])]_vars

\* of two stores the first has its row while the second is still waiting
\* for its provider: the call is pending and has no result
C20_Witness ==
    /\ phase = "running"
    /\ Len(stores) = 2
    /\ pipes[1].pc = "fulfilled"
    /\ pipes[2].pc = "getPrices"
    /\ result = <<>>

\* C21: when the getPricesForStore call of a store has rejected, the row of
\* that store, in the pipeline and in the result, keeps the store's id, name
\* and address, has one entry per input item, in order, each with an absent
\* price, has an absent total, usedMockData = true and mockDataReason =
\* "Error: " followed by the message of what was thrown.
C21_ErrorRow ==
    \A i \in DOMAIN pipes :
        ErrorPath(i) =>
            LET row == pipes[i].row
            IN  /\ row.id = stores[i].id
                /\ row.name = stores[i].name
                /\ row.address = stores[i].address
                /\ Len(row.items) = Len(items)
                /\ \A k \in DOMAIN items :
                      /\ row.items[k].price = NullPrice
                      /\ row.items[k].itemName = items[k].name
                /\ row.total = NullPrice
                /\ row.usedMockData
                /\ row.mockDataReason = <<"Error: ", pipes[i].gp.error.message>>
                /\ pipes[i].gp.error.isError
                /\ Resolved => \E j \in DOMAIN result : result[j] = row

\* with forced mock, a request of two items made the mock provider throw and
\* the store's error row is in the result
C21_Witness ==
    /\ Resolved
    /\ Len(items) = 2
    /\ \E i \in DOMAIN pipes :
          /\ pipes[i].via = "forced"
          /\ ErrorPath(i)
          /\ pipes[i].gp.error.message = TypeErrorMessage
          /\ \E j \in DOMAIN result : result[j] = pipes[i].row

\* C22: for the result set of every state (empty before a call resolves, up
\* to three rows after) getStats returns the number of rows, the number of
\* rows with a present total and the number of rows with usedMockData true.
C22_GetStatsCounts ==
    LET stats == getStats(result)
    IN  /\ stats.totalStores = Len(result)
        /\ stats.storesWithCompletePrices =
               Cardinality({j \in DOMAIN result : result[j].total # NullPrice})
        /\ stats.storesUsingMockData =
               Cardinality({j \in DOMAIN result : result[j].usedMockData})
        /\ result = <<>> =>
               stats = [totalStores |-> 0, storesWithCompletePrices |-> 0,
                        storesUsingMockData |-> 0]

\* a result of three rows, two of them complete, one using mock data
C22_Witness ==
    /\ Resolved
    /\ getStats(result) = [totalStores |-> 3, storesWithCompletePrices |-> 2,
                           storesUsingMockData |-> 1]

\* C23 as stated: any two requests sent by findStores start at least
\* minRequestInterval apart, also when several findStores calls wait in
\* enforceRateLimit at the same time.
C23_RequestsSpacedApart ==
    \A i \in DOMAIN overpass.sent, j \in DOMAIN overpass.sent :
        i < j => overpass.sent[j] - overpass.sent[i] >= minRequestInterval

\* what convertGeoapifyFeaturesToStores / convertOSMElementsToStores can make
\* of an answer of the places API
ApiLists ==
    {convertToStores(impl, places) :
        impl \in {"geoapify", "overpass"}, places \in ApiResponses}

\* the key of the findNearbyStores call in progress
discKey(d) == getStoreKey(d.lat, d.lng, d.radius)

\* a call that returned the mock list leaves no cache entry under its key,
\* and every list in the store cache was made from an answer of the API
NoMockListStored ==
    /\ (disc.pc = "returned" /\ disc.via = "mock") =>
           discKey(disc) \notin DOMAIN storeCache
    /\ \A key \in DOMAIN storeCache : storeCache[key] \in ApiLists

\* a call starts for the location and radius of the previous call, which
\* returned the mock list
SameLocationAfterMock ==
    /\ disc.pc = "idle"
    /\ disc'.pc # "idle"
    /\ disc.lastMock = discKey(disc')

\* C24 as stated: a mock store list is never cached, only lists obtained
\* from the places API are, and the call that follows a mock fallback for
\* the same location and radius queries the places API again.
C24_NoMockCachedApiQueriedAgain ==
    /\ []NoMockListStored
    /\ [][SameLocationAfterMock => disc'.pc = "apiCall"]_vars

\* C24 as amended: a mock store list is never cached, only lists obtained
\* from the places API are, and the call that follows a mock fallback for
\* the same location and radius is not served from the cache: it queries
\* the places API again, except that without a Geoapify API key it goes to
\* the mock list again.
C24_NoMockCachedNextCallMisses ==
    /\ []NoMockListStored
    /\ [][SameLocationAfterMock =>
             disc'.pc = IF disc.impl = "geoapify" /\ ~disc.configured
                        THEN "mockDelay" ELSE "apiCall"]_vars

\* the call after a mock fallback, for the same location, is at the places API
C24_Witness ==
    /\ disc.pc = "apiCall"
    /\ disc.lastMock = discKey(disc)

\* the body has numeric coordinates in range and a non-empty items array
WellFormed(r) ==
    /\ r.latitude.t = "number" /\ r.latitude.v >= -90 /\ r.latitude.v <= 90
    /\ r.longitude.t = "number" /\ r.longitude.v >= -180 /\ r.longitude.v <= 180
    /\ r.items.t = "array" /\ r.items.v > 0

\* C25 as stated: POST /compare answers 400 exactly when latitude, longitude
\* or items is missing, items is not an array or is empty, or a coordinate
\* is out of range; a request with numeric coordinates in range, 0
\* included, and a non-empty items array goes on to store discovery.
C25_Status400IffMalformed ==
    [][(request.pc = "idle" /\ request'.pc # "idle") =>
          /\ (request'.status = 400) <=> ~WellFormed(request')
          /\ WellFormed(request') => request'.pc = "findNearbyStores"]_vars

\* the template string of a reason has at least one character
NonEmptyReason(reason) ==
    reason # NoReason /\ \E k \in DOMAIN reason : reason[k] # ""

\* C26: in every row compareStores returns, mockDataReason is present and
\* not empty exactly when usedMockData is true.
C26_ReasonIffUsedMockData ==
    Resolved =>
        \A k \in DOMAIN result :
            /\ NonEmptyReason(result[k].mockDataReason) <=> result[k].usedMockData
            /\ ~result[k].usedMockData => result[k].mockDataReason = NoReason

\* one call returns a row priced by a non-mock provider, without a reason,
\* next to a row of the error path, with one
C26_Witness ==
    /\ Resolved
    /\ \E k \in DOMAIN result :
          /\ ~result[k].usedMockData
          /\ result[k].mockDataReason = NoReason
          /\ pipes[PipeOfRow(result[k])].via = "provider"
    /\ \E k \in DOMAIN result :
          /\ result[k].usedMockData
          /\ ErrorPath(PipeOfRow(result[k]))
          /\ NonEmptyReason(result[k].mockDataReason)

\* the manager as constructed: registerProvider was called for the mock only
OnlyMockRegistered == DOMAIN providers = {MockKey}

\* C27: as long as only the mock provider is registered the price cache is
\* empty, no pipeline over a non-empty item list takes the full-cache-hit
\* branch, and every returned row has usedMockData = true.
C27_OnlyMockNeverCaches ==
    OnlyMockRegistered =>
        /\ priceCache = <<>>
        /\ items # <<>> => \A i \in DOMAIN pipes : pipes[i].via # "cache"
        /\ Resolved => \A k \in DOMAIN result : result[k].usedMockData

\* the second call of a process without forced mock has returned rows, one
\* of them priced by the mock as selected provider, after cachePrices ran in
\* the first call as well
C27_Witness ==
    /\ OnlyMockRegistered
    /\ ~forceMockData
    /\ Resolved
    /\ nCalls = 2
    /\ result # <<>>
    /\ \E i \in DOMAIN pipes :
          pipes[i].via = "selectedMock" /\ pipes[i].gp.state = "resolved"

\* the items with every quantity replaced by q
WithQuantity(its, q) == [k \in DOMAIN its |-> [its[k] EXCEPT !.quantity = q]]

\* C28: when a non-mock provider's prices for a request are cached, a
\* request for the same store and products in any other quantity is a full
\* cache hit that returns exactly those prices; and in the calls that
\* follow the first, made with another quantity, a full cache hit returns
\* the cached price of each product as it is.
C28_CachedPriceIgnoresQuantity ==
    /\ [][\A i \in DOMAIN pipes :
             (ProviderResolvesNow(i) /\ AllPresent(pipes'[i].gp.prices)) =>
                 \A q \in Quantities :
                     LET later == startPipe(FALSE, providers', priceCache',
                                            stores[i], WithQuantity(items, q))
                     IN  /\ later.via = "cache"
                         /\ Len(later.gp.prices) = Len(items)
                         /\ \A k \in DOMAIN items :
                               later.gp.prices[k].price = pipes'[i].gp.prices[k].price]_vars
    /\ [](\A i \in DOMAIN pipes :
             pipes[i].via = "cache" =>
                 \A k \in DOMAIN items :
                     /\ pipes[i].gp.prices[k].price =
                            getPrice(priceCache, stores[i].name, items[k].productId)
                     /\ pipes[i].gp.prices[k].price \in ProviderPrices)

\* the second call, asking for another quantity than the first, has been
\* answered from the cache with the price the provider gave in the first
C28_Witness ==
    /\ nCalls = 2
    /\ Resolved
    /\ pipes[1].via = "cache"
    /\ items[1].quantity # FirstQuantity
    /\ result[1].items[1].price \in ProviderPrices
    /\ result[1].total = result[1].items[1].price

\* stores i and j of the call share their price cache keys
SameCacheKeys(i, j) ==
    getPriceKey(stores[i].name, 0) = getPriceKey(stores[j].name, 0)

\* C29: with forced mock off, the step that starts a compareStores call does
\* the cache lookup of every pipeline on the cache as it was and writes
\* nothing; the cache is written only later, while the call is running and
\* every pipeline has done its lookup; two stores of a call with the same
\* cache keys both hit or both miss and on a miss select the same provider;
\* and each provider result is written over whatever is cached under its
\* keys, so that of two such stores the later write stays.
C29_LookupsBeforeWrites ==
    /\ [][(phase = "idle" /\ phase' = "running" /\ ~forceMockData) =>
             /\ priceCache' = priceCache
             /\ \A i \in DOMAIN pipes' :
                   /\ "cache.get" \in pipes'[i].log
                   /\ (pipes'[i].via = "cache") <=>
                         FullCacheHit(priceCache, stores'[i], items')]_vars
    /\ [][(\E key \in DOMAIN priceCache' : EntryWritten(key)) =>
             /\ phase = "running"
             /\ \A i \in DOMAIN pipes : "cache.get" \in pipes[i].log]_vars
    /\ []((phase = "running" /\ ~forceMockData) =>
             \A i \in DOMAIN pipes, j \in DOMAIN pipes :
                 SameCacheKeys(i, j) =>
                     /\ (pipes[i].via = "cache") <=> (pipes[j].via = "cache")
                     /\ pipes[i].via # "cache" => pipes[i].provider = pipes[j].provider)
    /\ [][\A i \in DOMAIN pipes :
             ProviderResolvesNow(i) =>
                 \A k \in DOMAIN items :
                     pipes'[i].gp.prices[k].price # NullPrice =>
                         getPrice(priceCache', stores[i].name, items[k].productId)
                             = pipes'[i].gp.prices[k].price]_vars

\* two stores with the same cache keys both missed, both were priced by the
\* provider, with different prices for the first item, and the cache holds
\* one of the two
C29_Witness ==
    /\ Resolved
    /\ Len(stores) = 2
    /\ SameCacheKeys(1, 2)
    /\ pipes[1].via = "provider" /\ pipes[2].via = "provider"
    /\ pipes[1].gp.state = "resolved" /\ pipes[2].gp.state = "resolved"
    /\ {"cache.get", "cache.set"} \subseteq pipes[1].log \cap pipes[2].log
    /\ pipes[1].gp.prices[1].price # NullPrice
    /\ pipes[2].gp.prices[1].price # NullPrice
    /\ pipes[1].gp.prices[1].price # pipes[2].gp.prices[1].price
    /\ getPrice(priceCache, stores[1].name, items[1].productId)
          \in {pipes[1].gp.prices[1].price, pipes[2].gp.prices[1].price}

Kroger == <<"k", "r", "o", "g", "e", "r">>

\* C30: a pipeline runs a non-mock provider only for a store whose
\* lower-cased name contains "walmart", or else "target", and then the one
\* registered under exactly that key; no isAvailable or getPrices of a
\* non-mock provider runs for any other store; and the provider registered
\* under another name is selected for no store name and never called.
C30_OnlyBrandKeysAreUsed ==
    /\ \A i \in DOMAIN pipes :
          LET name == toLowerCase(stores[i].name)
              key == IF includes(name, <<"w", "a", "l", "m", "a", "r", "t">>)
                     THEN <<"w", "a", "l", "m", "a", "r", "t">>
                     ELSE <<"t", "a", "r", "g", "e", "t">>
              nonMock == pipes[i].provider \notin {MockProviderName, NoProvider}
          IN  /\ nonMock =>
                    /\ includes(name, key)
                    /\ key \in DOMAIN providers
                    /\ pipes[i].provider = providers[key]
              /\ pipes[i].log \cap {"provider.isAvailable", "provider.getPrices"} # {}
                    => nonMock
              /\ Kroger \in DOMAIN providers =>
                    pipes[i].provider # providers[Kroger]
    /\ \A s \in SelectStoreCatalogue :
          Kroger \in DOMAIN providers =>
              selectProvider(providers, s.name) # providers[Kroger]

\* with providers registered under "kroger" and "walmart", the store Kroger
\* was priced by the mock provider and no other provider was called for it
C30_Witness ==
    /\ Kroger \in DOMAIN providers
    /\ <<"w", "a", "l", "m", "a", "r", "t">> \in DOMAIN providers
    /\ ~forceMockData
    /\ Resolved
    /\ toLowerCase(stores[1].name) = Kroger
    /\ pipes[1].via = "selectedMock"
    /\ pipes[1].provider = MockProviderName
    /\ "provider.getPrices" \notin pipes[1].log

====
